---- MODULE Spec2Model ----
(***************************************************************************)
(* Model of python_rag_service: the conversation memory store              *)
(* (app/services/chat_memory_service.py), the two request handlers /chat   *)
(* and /generate (app/routes.py) with the retrieval, generation and        *)
(* web-fallback capabilities they call, the web fallback itself            *)
(* (app/services/web_search_service.py) and the knowledge-base refresher   *)
(* (app/services/knowledge_base_service.py), alone and interleaved with    *)
(* retrieval against the live index (app/services/rag_service.py).         *)
(*                                                                         *)
(* Text is a sequence of tokens (each token stands for a run of            *)
(* characters), so that Python's substring test `m in s`, concatenation    *)
(* and slicing are computed and not assumed.                               *)
(***************************************************************************)
EXTENDS Integers, Sequences, FiniteSets, TLC

VARIABLES files, req, started, lastAppend, lastRead, apiCalls, kb, web

vars == <<files, req, started, lastAppend, lastRead, apiCalls, kb, web>>

(***************************************************************************)
(* Bounds of the model.                                                    *)
(***************************************************************************)
MaxRequests == 2
MaxApiCalls == 3
MaxLimit == 3
MaxLen == 3
MaxTopK == 2
MaxCharLimit == 2

(***************************************************************************)
(* Python values.                                                          *)
(***************************************************************************)
\* A JSON scalar: a string (t = "str") or a number (t = "num"), s its text.
Str(s) == [t |-> "str", s |-> s]
Num(s) == [t |-> "num", s |-> s]

\* str(v): a number becomes the string of its digits, a string stays itself.
PyStr(v) == [t |-> "str", s |-> v.s]

\* m in s, for strings
Contains(m, s) ==
    \E i \in 0..(Len(s) - Len(m)) : SubSeq(s, i + 1, i + Len(m)) = m

\* s[start:], with Python's normalisation of the start index
PySliceFrom(s, start) ==
    LET n == Len(s)
        i == IF start < 0
             THEN (IF start + n < 0 THEN 0 ELSE start + n)
             ELSE (IF start > n THEN n ELSE start)
    IN  SubSeq(s, i + 1, n)

\* An optional value, as dict.get gives it: None, or a string.
None == [some |-> FALSE, v |-> <<>>]
Some(s) == [some |-> TRUE, v |-> s]
Truthy(x) == x.some /\ x.v # <<>>
\* a or b
PyOr(a, b) == IF Truthy(a) THEN a ELSE b

(***************************************************************************)
(* Identifiers and storage keys.                                           *)
(***************************************************************************)
UserA == <<"a">>
UserAB == <<"a", "_", "b">>
ChatC == <<"c">>
ChatBC == <<"b", "_", "c">>

Users == {UserA, UserAB}
Chats == {ChatC, ChatBC}
Pairs == Users \X Chats

\* f"{user_id}_{chat_id}.json" under memory_dir
get_file_path(user_id, chat_id) == user_id \o <<"_">> \o chat_id \o <<".json">>

Keys == {get_file_path(p[1], p[2]) : p \in Pairs}

(***************************************************************************)
(* Stored entries and file contents.                                       *)
(***************************************************************************)
\* One element of the stored JSON array.  shape "dict": an object holding
\* the keys role and message (extra: it holds other keys too); "pair": a
\* two-element array [role, message]; "other": anything else.
Dict(role, message) ==
    [shape |-> "dict", role |-> role, message |-> message, extra |-> FALSE]
DictExtra(role, message) ==
    [shape |-> "dict", role |-> role, message |-> message, extra |-> TRUE]
Pair(role, message) ==
    [shape |-> "pair", role |-> role, message |-> message, extra |-> FALSE]
Other ==
    [shape |-> "other", role |-> Str(<<>>), message |-> Str(<<>>), extra |-> FALSE]

\* The content of a file: absent (no file), corrupt (not JSON), scalar (JSON
\* that is a truthy non-iterable value), or a JSON array.
Absent == [kind |-> "absent", items |-> <<>>]
Corrupt == [kind |-> "corrupt", items |-> <<>>]
Scalar == [kind |-> "scalar", items |-> <<>>]
List(items) == [kind |-> "list", items |-> items]

RoleUser == Str(<<"user">>)
RoleBot == Str(<<"bot">>)

\* _normalize_history on a list
NormalizeSkipOther(item) ==
    IF item.shape = "dict" THEN <<Dict(item.role, item.message)>>
    ELSE IF item.shape = "pair" THEN <<Dict(PyStr(item.role), PyStr(item.message))>>
    ELSE <<>>

\* a slip: legacy pairs are dropped like entries of any other shape
NormalizeDropPair(item) ==
    IF item.shape = "dict" THEN <<Dict(item.role, item.message)>> ELSE <<>>

NormalizeItem(item) == NormalizeSkipOther(item)

RECURSIVE normalize_history(_)
normalize_history(history_raw) ==
    IF history_raw = <<>> THEN <<>>
    ELSE NormalizeItem(Head(history_raw)) \o normalize_history(Tail(history_raw))

\* json.load of an existing file raises on content that is not JSON.
LoadRaises(content) == content.kind = "corrupt"
\* iterating a loaded value raises when it is a truthy non-iterable
IterRaises(content) == content.kind = "scalar"

\* add_message: what the file holds afterwards, or that the call raised.
\* A file that cannot be parsed is read as []; the loop over a scalar is
\* outside the try and raises.
AddMessageRaises(content) == content.kind = "scalar"

\* a slip: the new turn is put in front
AppendTurnFront(history, role, message) == <<Dict(role, message)>> \o history

AppendTurn(history, role, message) == Append(history, Dict(role, message))

\* the first half of add_message: raw, as read from the file ([] when the
\* file is absent or cannot be parsed)
AddMessageRead(content) == IF content.kind = "list" THEN content.items ELSE <<>>

\* a slip: what was read is not written back
AddMessageWriteTurnOnly(raw, message, role) == List(<<Dict(role, message)>>)

\* the second half: normalise, append, write back
AddMessageWrite(raw, message, role) ==
    List(AppendTurn(normalize_history(raw), role, message))

add_message(content, message, role) ==
    AddMessageWrite(AddMessageRead(content), message, role)

\* get_history: raises on a file that is not JSON or is a scalar.
GetHistoryRaises(content) == LoadRaises(content) \/ IterRaises(content)

LastLimit(normalized, limit) == PySliceFrom(normalized, 0 - limit)

get_history(content, limit) ==
    IF content.kind = "absent" THEN <<>>
    ELSE LastLimit(normalize_history(content.items), limit)

(***************************************************************************)
(* Texts of the model.                                                     *)
(***************************************************************************)
\* the two entries of fallback_markers
Marker1 == <<"sorry,", "kb_has_no_such_data">>
Marker2 == <<"cannot", "answer_this_question">>
fallback_markers == {Marker1, Marker2}

\* find_best_passage's value when the query gives no document
NotFoundSentinel == Marker1 \o <<".">>

EmptyText == <<>>
Question == <<"what_is_occupational_injury?">>
PlainAnswer == <<"occupational_injury_is", "...">>

(***************************************************************************)
(* The state before any request.                                           *)
(***************************************************************************)
\* The one key that two different pairs share: (a, b_c) and (a_b, c).
SharedKey == get_file_path(UserA, ChatBC)

WellFormedLog == List(<<Dict(RoleUser, Str(Question)), Dict(RoleBot, Str(PlainAnswer))>>)
LegacyLog ==
    List(<<Pair(RoleUser, Num(<<"7">>)), Other, DictExtra(RoleBot, Str(PlainAnswer))>>)

\* limit of the history read by chat (the default of get_history)
HistoryLimit == 20

\* a conversation of more turns than chat reads
LongLog ==
    List([i \in 1..(HistoryLimit + 1) |->
            Dict(IF i % 2 = 1 THEN RoleUser ELSE RoleBot, Str(<<"m">>))])

\* What a file can hold when the service starts: nothing, what an earlier
\* version or run wrote, or damaged content.
InitContents == {Absent, Corrupt, Scalar, List(<<>>), WellFormedLog, LegacyLog, LongLog}

NoAppend ==
    [valid |-> FALSE, raised |-> FALSE, user |-> <<>>, chat |-> <<>>,
     prev |-> Absent, turn |-> Other]
NoRead ==
    [valid |-> FALSE, raised |-> FALSE, user |-> <<>>, chat |-> <<>>,
     limit |-> 0, result |-> <<>>]

FilesInit ==
    files \in {[k \in Keys |-> IF k = SharedKey THEN c ELSE Absent] : c \in InitContents}

(***************************************************************************)
(* The memory store called directly: ChatMemoryService.add_message and     *)
(* ChatMemoryService.get_history on any pair, with any limit.              *)
(***************************************************************************)
MemPairs == {<<UserA, ChatBC>>, <<UserAB, ChatC>>, <<UserA, ChatC>>}
MemMessages == {Str(Question), Str(EmptyText)}
MemRoles == {RoleUser, RoleBot}

ApiAddMessage(user_id, chat_id, message, role) ==
    LET file_path == get_file_path(user_id, chat_id)
        content == files[file_path]
    IN  /\ apiCalls < MaxApiCalls
        /\ apiCalls' = apiCalls + 1
        /\ files' = IF AddMessageRaises(content) THEN files
                    ELSE [files EXCEPT ![file_path] = add_message(content, message, role)]
        /\ lastAppend' = [valid |-> TRUE, raised |-> AddMessageRaises(content),
                          user |-> user_id, chat |-> chat_id,
                          prev |-> content, turn |-> Dict(role, message)]
        /\ lastRead' = NoRead
        /\ UNCHANGED <<kb, web, req, started>>

ApiGetHistory(user_id, chat_id, limit) ==
    LET content == files[get_file_path(user_id, chat_id)]
    IN  /\ apiCalls < MaxApiCalls
        /\ apiCalls' = apiCalls + 1
        /\ lastRead' = [valid |-> TRUE, raised |-> GetHistoryRaises(content),
                        user |-> user_id, chat |-> chat_id, limit |-> limit,
                        result |-> IF GetHistoryRaises(content) THEN <<>>
                                   ELSE get_history(content, limit)]
        /\ UNCHANGED <<kb, web, files, req, started, lastAppend>>

MemAppendStep ==
    \E p \in MemPairs, message \in MemMessages, role \in MemRoles :
        ApiAddMessage(p[1], p[2], message, role)

MemReadStep ==
    \E p \in MemPairs, limit \in 0..MaxLimit : ApiGetHistory(p[1], p[2], limit)

(***************************************************************************)
(* _normalize_history on stored arrays of every mix of entry shapes, as    *)
(* get_history and add_message apply it.                                   *)
(***************************************************************************)
StoredEntries ==
    {Dict(RoleUser, Str(<<"q">>)), DictExtra(RoleBot, Num(<<"7">>)),
     Pair(RoleUser, Num(<<"7">>)), Pair(RoleBot, Str(<<"a">>)), Other}

RECURSIVE SeqsUpTo(_, _)
SeqsUpTo(S, n) ==
    IF n = 0 THEN {<<>>}
    ELSE LET shorter == SeqsUpTo(S, n - 1)
         IN  shorter \cup {Append(t, e) : t \in {u \in shorter : Len(u) = n - 1}, e \in S}

NormFilesInit ==
    files \in {[k \in Keys |-> IF k = SharedKey THEN List(items) ELSE Absent] :
                  items \in SeqsUpTo(StoredEntries, MaxLen)}

NormReadStep == ApiGetHistory(UserA, ChatBC, HistoryLimit)

NormAppendStep ==
    \E role \in MemRoles : ApiAddMessage(UserA, ChatBC, Str(Question), role)

(***************************************************************************)
(* Requests.                                                               *)
(***************************************************************************)
RefusalAnswer == <<"as_far_as_i_know,", "i">> \o Marker2
WebAnswer == <<"according_to_the_web", "...">>
Passage == <<"labor_insurance_act_article_34", "...">>
PassageWithMarker == <<"faq:">> \o Marker2 \o <<"?">>
WebContext == <<"[source]", "title", "url", "[content]", "page_text">>

NoClaims == [user_id |-> None, id |-> None, email |-> None, username |-> None]

\* The claims of a verified token: each of the four either carries its value
\* or does not, and a claim that does not is absent (None) or the empty
\* string.
ClaimValues(missing, v) == {missing, Some(v)}
ClaimMapsWith(missing) ==
    [user_id : ClaimValues(missing, UserA), id : ClaimValues(missing, UserAB),
     email : ClaimValues(missing, UserA), username : ClaimValues(missing, UserAB)]
ClaimMaps == ClaimMapsWith(None) \cup ClaimMapsWith(Some(EmptyText))

IdleReq ==
    [pc |-> "idle", route |-> "none", token |-> "none", status |-> 0,
     claims |-> NoClaims, has_message |-> FALSE, has_chat_id |-> FALSE,
     user_id |-> None, chat_id |-> EmptyText, user_query |-> EmptyText,
     history |-> <<>>, full_context |-> EmptyText,
     relevant_context |-> EmptyText, first_answer |-> EmptyText,
     final_answer |-> EmptyText, web_ctx |-> EmptyText,
     second_answer |-> EmptyText, raw |-> <<>>,
     log_before |-> Absent, calls |-> <<>>, error |-> "none",
     reply |-> EmptyText, resp_history |-> <<>>]

Call(op, a, b) == [op |-> op, a |-> a, b |-> b]

RECURSIVE CountCalls(_, _)
CountCalls(calls, op) ==
    IF calls = <<>> THEN 0
    ELSE (IF Head(calls).op = op THEN 1 ELSE 0) + CountCalls(Tail(calls), op)

\* The outcome of a call to an external capability: a text, or an exception
\* (quota: google_exceptions.ResourceExhausted; error: any other).
Ok(text) == [kind |-> "ok", text |-> text]
Quota == [kind |-> "quota", text |-> EmptyText]
Failure == [kind |-> "error", text |-> EmptyText]

RetrievalOutcomes == {Ok(Passage), Ok(PassageWithMarker), Ok(NotFoundSentinel), Quota, Failure}
GenerationOutcomes == {Ok(PlainAnswer), Ok(RefusalAnswer), Quota, Failure}
RegenerationOutcomes == {Ok(WebAnswer), Ok(RefusalAnswer), Quota, Failure}
WebOutcomes == {Ok(EmptyText), Ok(WebContext), Failure}

\* user_id = claims.user_id or claims.id or claims.email or claims.username
ResolveInOrder(claims) ==
    PyOr(PyOr(PyOr(claims.user_id, claims.id), claims.email), claims.username)

\* a slip: the claims the companion backend issues are tried first
ResolveEmailFirst(claims) ==
    PyOr(PyOr(PyOr(claims.email, claims.username), claims.user_id), claims.id)

ResolveUserId(claims) == ResolveInOrder(claims)

\* not data or 'message' not in data or 'chat_id' not in data
ChatBodyInvalid(has_message, has_chat_id) == ~has_message \/ ~has_chat_id
\* not data or 'message' not in data
GenerateBodyInvalid(has_message) == ~has_message

\* any(m in relevant_context ...) or any(m in (final_answer or "") ...)
AnyMarkerInEither(relevant_context, final_answer) ==
    \/ \E m \in fallback_markers : Contains(m, relevant_context)
    \/ \E m \in fallback_markers : Contains(m, final_answer)

\* slips: the context is not tested; only the first marker is tested; the
\* fallback is run whatever the texts hold
NeedsFallbackAnswerOnly(relevant_context, final_answer) ==
    \E m \in fallback_markers : Contains(m, final_answer)
NeedsFallbackFirstMarkerOnly(relevant_context, final_answer) ==
    Contains(Marker1, relevant_context) \/ Contains(Marker1, final_answer)
NeedsFallbackAlways(relevant_context, final_answer) == TRUE

NeedsFallback(relevant_context, final_answer) ==
    AnyMarkerInEither(relevant_context, final_answer)

\* f"{h['role']}: {h['message']}"
RenderTurn(h) == h.role.s \o <<": ">> \o h.message.s

\* '\n'.join(lines)
RECURSIVE JoinLines(_)
JoinLines(lines) ==
    IF lines = <<>> THEN <<>>
    ELSE IF Len(lines) = 1 THEN Head(lines)
    ELSE Head(lines) \o <<"\n">> \o JoinLines(Tail(lines))

HistoryText(history) == JoinLines([i \in 1..Len(history) |-> RenderTurn(history[i])])

\* f"{history_text}\nuser: {user_query}" if history_text else user_query
FullContext(history, user_query) ==
    IF HistoryText(history) # EmptyText
    THEN HistoryText(history) \o <<"\n", "user", ": ">> \o user_query
    ELSE user_query

\* the status of a request ended by an exception: /generate catches it,
\* /chat lets it reach the framework
ExceptionStatus(route, kind) ==
    IF route = "generate" /\ kind = "quota" THEN 429 ELSE 500

Set(r, rec) == req' = [req EXCEPT ![r] = rec]

Finished(q, status) == [q EXCEPT !.pc = "done", !.status = status]

Tokens == {"missing", "invalid", "valid"}
Messages == {EmptyText, Question}

\* where a request goes once its final answer is known
AfterAnswer(q) ==
    IF q.route = "chat" THEN [q EXCEPT !.pc = "add_user_read"]
    ELSE [Finished(q, 200) EXCEPT !.reply = q.final_answer]

\* a slip: the exception is swallowed and the handler goes on to store the
\* turns
RaisedSwallowed(q, kind) == [AfterAnswer(q) EXCEPT !.error = kind]

\* a call made by the handler raised: the exception's kind is kept with the
\* response it leads to
Raised(q, kind) ==
    [Finished(q, ExceptionStatus(q.route, kind)) EXCEPT !.error = kind]

\* a slip: the regenerated answer is tested again and a refusal starts another
\* fallback
AfterRegenerateRecheck(q) ==
    IF \E m \in fallback_markers : Contains(m, q.final_answer)
    THEN [q EXCEPT !.pc = "web"]
    ELSE AfterAnswer(q)

\* After the regeneration the handler goes on as after a first answer that
\* needs no fallback: the markers are not tested again.
AfterRegenerate(q) == AfterAnswer(q)

(***************************************************************************)
(* /chat: require_jwt, the body check, the identity, up to the first call  *)
(* that leaves the handler.                                                *)
(***************************************************************************)
ChatReceive(r) ==
    /\ req[r].pc = "idle"
    /\ started < MaxRequests
    /\ started' = started + 1
    /\ \E token \in Tokens, claims \in ClaimMaps, has_message \in BOOLEAN,
          has_chat_id \in BOOLEAN, message \in Messages, chat_id \in Chats \cup {EmptyText} :
        /\ token # "valid" => claims = NoClaims
        /\ ~has_message => message = EmptyText
        /\ has_chat_id <=> chat_id \in Chats
        /\ LET q == [IdleReq EXCEPT !.route = "chat", !.token = token,
                                    !.claims = claims,
                                    !.has_message = has_message,
                                    !.has_chat_id = has_chat_id,
                                    !.user_query = message, !.chat_id = chat_id]
               user_id == ResolveUserId(claims)
           IN  Set(r, IF token # "valid" THEN Finished(q, 401)
                      ELSE IF ChatBodyInvalid(has_message, has_chat_id)
                      THEN Finished(q, 400)
                      ELSE IF ~Truthy(user_id) THEN Finished(q, 401)
                      ELSE [q EXCEPT !.pc = "get_history", !.user_id = user_id])
    /\ UNCHANGED <<kb, web, files, lastAppend, lastRead, apiCalls>>

\* history = chat_memory.get_history(user_id, chat_id, limit=20), then the
\* augmented query
ChatGetHistory(r) ==
    LET q == req[r]
        content == files[get_file_path(q.user_id.v, q.chat_id)]
        called == [q EXCEPT !.claims = NoClaims, !.log_before = content,
                            !.calls = Append(q.calls, Call("get_history", q.user_id.v, q.chat_id))]
        history == get_history(content, HistoryLimit)
    IN  /\ q.pc = "get_history"
        /\ Set(r, IF GetHistoryRaises(content) THEN Raised(called, "error")
                  ELSE [called EXCEPT !.pc = "retrieve", !.history = history,
                                      !.full_context = FullContext(history, q.user_query)])
        /\ UNCHANGED <<kb, web, files, started, lastAppend, lastRead, apiCalls>>

(***************************************************************************)
(* /generate: the body check.                                              *)
(***************************************************************************)
GenerateReceive(r) ==
    /\ req[r].pc = "idle"
    /\ started < MaxRequests
    /\ started' = started + 1
    /\ \E token \in {"missing", "valid"}, has_message \in BOOLEAN, message \in Messages :
        /\ ~has_message => message = EmptyText
        /\ LET q == [IdleReq EXCEPT !.route = "generate", !.token = token,
                                    !.has_message = has_message,
                                    !.user_query = message]
           IN  Set(r, IF GenerateBodyInvalid(has_message) THEN Finished(q, 400)
                      ELSE [q EXCEPT !.pc = "retrieve"])
    /\ UNCHANGED <<kb, web, files, lastAppend, lastRead, apiCalls>>

(***************************************************************************)
(* The steps both handlers share.                                          *)
(***************************************************************************)
\* a slip: retrieval is given the question alone
RetrievalQueryRaw(q) == q.user_query

\* the query retrieval is given
RetrievalQuery(q) == IF q.route = "chat" THEN q.full_context ELSE q.user_query

\* relevant_context = find_best_passage(query, collection)
Retrieve(r) ==
    LET q == req[r]
        called == [q EXCEPT !.calls = Append(q.calls, Call("retrieve", RetrievalQuery(q), EmptyText))]
    IN  /\ q.pc = "retrieve"
        /\ \E out \in RetrievalOutcomes :
            Set(r, IF out.kind = "ok"
                   THEN [called EXCEPT !.pc = "generate", !.relevant_context = out.text]
                   ELSE Raised(called, out.kind))
        /\ UNCHANGED <<kb, web, files, started, lastAppend, lastRead, apiCalls>>

\* final_answer = generate_answer(user_query, relevant_context, model), then
\* the test of the markers
Generate(r) ==
    LET q == req[r]
        called == [q EXCEPT !.calls = Append(q.calls, Call("generate", q.user_query, q.relevant_context))]
    IN  /\ q.pc = "generate"
        /\ \E out \in GenerationOutcomes :
            Set(r, IF out.kind = "ok"
                   THEN LET a == [called EXCEPT !.first_answer = out.text,
                                                !.final_answer = out.text]
                        IN  IF NeedsFallback(q.relevant_context, out.text)
                            THEN [a EXCEPT !.pc = "web"]
                            ELSE AfterAnswer(a)
                   ELSE Raised(called, out.kind))
        /\ UNCHANGED <<kb, web, files, started, lastAppend, lastRead, apiCalls>>

\* web_ctx = build_web_context(user_query, top_k=2)
WebFallback(r) ==
    LET q == req[r]
        called == [q EXCEPT !.calls = Append(q.calls, Call("web", q.user_query, EmptyText))]
    IN  /\ q.pc = "web"
        /\ \E out \in WebOutcomes :
            Set(r, IF out.kind = "ok"
                   THEN LET w == [called EXCEPT !.web_ctx = out.text]
                        IN  IF out.text # EmptyText THEN [w EXCEPT !.pc = "regenerate"]
                            ELSE AfterAnswer(w)
                   ELSE Raised(called, out.kind))
        /\ UNCHANGED <<kb, web, files, started, lastAppend, lastRead, apiCalls>>

\* final_answer = generate_answer(user_query, web_ctx, model)
Regenerate(r) ==
    LET q == req[r]
        called == [q EXCEPT !.calls = Append(q.calls, Call("generate", q.user_query, q.web_ctx))]
    IN  /\ q.pc = "regenerate"
        /\ \E out \in RegenerationOutcomes :
            Set(r, IF out.kind = "ok"
                   THEN AfterRegenerate([called EXCEPT !.final_answer = out.text,
                                                       !.second_answer = out.text])
                   ELSE Raised(called, out.kind))
        /\ UNCHANGED <<kb, web, files, started, lastAppend, lastRead, apiCalls>>

(***************************************************************************)
(* /chat: the two add_message calls, each a read of the file and a write   *)
(* of it, and the response.                                                *)
(***************************************************************************)
\* the role and the message of the add_message call a request is in
\* a slip: the bot turn is written first
AddRoleSwapped(q) == IF q.pc \in {"add_user_read", "add_user_write"} THEN RoleBot ELSE RoleUser
AddRole(q) == IF q.pc \in {"add_user_read", "add_user_write"} THEN RoleUser ELSE RoleBot
AddText(q) == IF q.pc \in {"add_user_read", "add_user_write"} THEN q.user_query ELSE q.final_answer

ChatAddRead(r) ==
    LET q == req[r]
        content == files[get_file_path(q.user_id.v, q.chat_id)]
        called == [q EXCEPT !.calls = Append(q.calls, Call("add_message", AddRole(q).s, AddText(q)))]
    IN  /\ q.pc \in {"add_user_read", "add_bot_read"}
        /\ Set(r, IF AddMessageRaises(content) THEN Raised(called, "error")
                  ELSE [called EXCEPT !.raw = AddMessageRead(content),
                                      !.pc = IF q.pc = "add_user_read" THEN "add_user_write"
                                             ELSE "add_bot_write"])
        /\ UNCHANGED <<kb, web, files, started, lastAppend, lastRead, apiCalls>>

\* history + [user turn, bot turn]
ResponseHistory(q) ==
    q.history \o <<Dict(RoleUser, Str(q.user_query)), Dict(RoleBot, Str(q.final_answer))>>

ChatAddWrite(r) ==
    LET q == req[r]
        file_path == get_file_path(q.user_id.v, q.chat_id)
        written == [q EXCEPT !.raw = <<>>]
    IN  /\ q.pc \in {"add_user_write", "add_bot_write"}
        /\ files' = [files EXCEPT ![file_path] = AddMessageWrite(q.raw, Str(AddText(q)), AddRole(q))]
        /\ Set(r, IF q.pc = "add_user_write" THEN [written EXCEPT !.pc = "add_bot_read"]
                  ELSE [Finished(written, 200) EXCEPT !.reply = q.final_answer,
                                                      !.resp_history = ResponseHistory(q)])
        /\ UNCHANGED <<kb, web, started, lastAppend, lastRead, apiCalls>>

\* The response leaves; the worker is free for the next request.
Respond(r) ==
    /\ req[r].pc = "done"
    /\ Set(r, IdleReq)
    /\ UNCHANGED <<kb, web, files, started, lastAppend, lastRead, apiCalls>>

(***************************************************************************)
(* The web fallback: google_search and build_web_context                   *)
(* (app/services/web_search_service.py).                                   *)
(***************************************************************************)
IdleWeb ==
    [pc |-> "idle", creds |-> FALSE, top_k |-> 0, char_limit |-> 0,
     results |-> <<>>, k |-> 0, pages |-> <<>>, chunks |-> <<>>,
     out |-> EmptyText]

\* s[:stop], with Python's normalisation of the stop index
PySliceTo(s, stop) ==
    LET n == Len(s)
        j == IF stop < 0
             THEN (IF stop + n < 0 THEN 0 ELSE stop + n)
             ELSE (IF stop > n THEN n ELSE stop)
    IN  SubSeq(s, 1, j)

\* one entry of the list google_search returns; a field the API left out
\* is ""
SearchItem(title, link) == [title |-> title, link |-> link]
SearchItems ==
    {SearchItem(<<"t">>, <<"u1">>), SearchItem(EmptyText, <<"u2">>),
     SearchItem(<<"t">>, EmptyText)}

\* "num": max(1, min(num, 10))
RequestedNum(num) ==
    LET m == IF num < 10 THEN num ELSE 10
    IN  IF m > 1 THEN m ELSE 1

\* the text scrape_website_content extracts from a page, one token a
\* character, or an exception it does not catch
PageOutcomes == {Ok(EmptyText), Ok(<<"x">>), Ok(<<"x", "y", "z">>), Failure}

\* a slip: every result returned is processed
AllResults(results, top_k) == results

\* results[:top_k]
TopResults(results, top_k) == PySliceTo(results, top_k)

\* a slip: the page text is kept whole
TruncateNot(content, char_limit) == content

\* content[:char_limit]
Truncate(content, char_limit) == PySliceTo(content, char_limit)

\* f"[source]{title}\n{url}\n[content]\n{content}"
Block(title, url, content) ==
    <<"[source]">> \o title \o <<"\n">> \o url \o <<"\n", "[content]", "\n">> \o content

\* "\n\n".join(chunks)
RECURSIVE JoinBlank(_)
JoinBlank(chunks) ==
    IF chunks = <<>> THEN EmptyText
    ELSE IF Len(chunks) = 1 THEN Head(chunks)
    ELSE Head(chunks) \o <<"\n\n">> \o JoinBlank(Tail(chunks))

\* results = google_search(query, num=top_k); if not results: return ""
GoogleSearch ==
    /\ web.pc = "search"
    /\ \E found \in SeqsUpTo(SearchItems, RequestedNum(web.top_k)), failed \in BOOLEAN :
        LET results == IF ~web.creds \/ failed THEN <<>> ELSE found
        IN  /\ (~web.creds \/ failed) => found = <<>>
            /\ web' = IF results = <<>>
                      THEN [web EXCEPT !.pc = "returned", !.out = EmptyText]
                      ELSE [web EXCEPT !.pc = "scrape", !.results = results]
    /\ UNCHANGED <<files, req, started, lastAppend, lastRead, apiCalls, kb>>

\* one turn of the loop over results[:top_k]
ScrapeResult ==
    LET top == TopResults(web.results, web.top_k)
    IN  /\ web.pc = "scrape"
        /\ web.k < Len(top)
        /\ LET r == top[web.k + 1]
               next == [web EXCEPT !.k = web.k + 1]
           IN  IF r.link = EmptyText
               THEN web' = [next EXCEPT !.pages = Append(web.pages, EmptyText)]
               ELSE \E page \in PageOutcomes :
                       web' = IF page.kind # "ok" THEN [web EXCEPT !.pc = "raised"]
                              ELSE IF page.text = EmptyText
                              THEN [next EXCEPT !.pages = Append(web.pages, EmptyText)]
                              ELSE [next EXCEPT
                                      !.pages = Append(web.pages, page.text),
                                      !.chunks = Append(web.chunks,
                                          Block(r.title, r.link, Truncate(page.text, web.char_limit)))]
        /\ UNCHANGED <<files, req, started, lastAppend, lastRead, apiCalls, kb>>

\* return "\n\n".join(chunks)
JoinChunks ==
    /\ web.pc = "scrape"
    /\ web.k = Len(TopResults(web.results, web.top_k))
    /\ web' = [web EXCEPT !.pc = "returned", !.out = JoinBlank(web.chunks)]
    /\ UNCHANGED <<files, req, started, lastAppend, lastRead, apiCalls, kb>>

(***************************************************************************)
(* The knowledge-base refresher: update_knowledge_base                     *)
(* (app/services/knowledge_base_service.py), one run.                      *)
(***************************************************************************)
\* len(DATA_SOURCES_URLS)
NumSources == 10
CHUNK_SIZE == 4
DELAY_BETWEEN_CHUNKS == 10

\* a slip: the id is the position counted from 0
DocIdFromZero(i) == i

\* f"doc_{i+1}", for the i of enumerate(DATA_SOURCES_URLS)
DocId(i) == i + 1

\* A document of the collection: its id and whether this run fetched it
\* ("new") or an earlier one did ("old").
Doc(id, gen) == [id |-> id, gen |-> gen]
OldDocs(n) == [j \in 1..n |-> Doc(j, "old")]

\* What the collection can hold when a run starts: nothing, what a complete
\* earlier run uploaded, or what an earlier run stopped after its first
\* batch left.
KbIndexes == {<<>>, OldDocs(NumSources), OldDocs(CHUNK_SIZE)}

IdleKb ==
    [pc |-> "idle", i |-> 0, all_docs |-> <<>>, index |-> <<>>,
     index_before |-> <<>>, pos |-> 0, events |-> <<>>, outcome |-> "none",
     at |-> "none", contents |-> <<>>]

\* process_csv_url / scrape_website_content: the text of the source, or ""
DocText == <<"source_text">>
FetchOutcomes == {EmptyText, DocText}

\* the outcomes of a call to the collection
CollectionOutcomes == {"ok", "quota", "error"}

\* a slip: a run without documents goes on to the purge
AbortNever(all_docs) == FALSE

\* if not all_docs: return
AbortOnNoDocs(all_docs) == all_docs = <<>>

\* all_docs[i:i + CHUNK_SIZE]
Chunk(all_docs, i) ==
    SubSeq(all_docs, i + 1,
           IF i + CHUNK_SIZE < Len(all_docs) THEN i + CHUNK_SIZE ELSE Len(all_docs))

\* a slip: the delay is also taken when the batch ends the list
MoreChunksOrEqual(i, n) == i + CHUNK_SIZE <= n

\* if i + CHUNK_SIZE < len(all_docs): time.sleep(DELAY_BETWEEN_CHUNKS)
MoreChunks(i, n) == i + CHUNK_SIZE < n

\* the run is over: with what outcome, and in which step it ended.  The
\* outcome "raised" is an exception that leaves update_knowledge_base; with
\* every other outcome the function returns.
KbEnded(k, outcome) == [k EXCEPT !.pc = "done", !.outcome = outcome, !.at = k.pc]

\* is_csv_url(url), for the i-th entry of DATA_SOURCES_URLS: none of them
\* holds 'api/v1/rest/datastore' or ends with '.csv', so each is fetched by
\* scrape_website_content
is_csv_url(i) == FALSE

\* process_csv_url catches every exception; scrape_website_content catches
\* requests.RequestException only, so a failure of the parsing of the page
\* leaves it as an exception
FetchCanRaise(i) == ~is_csv_url(i)

\* a slip: nothing is deleted
DeleteNone(index) == index

\* collection.delete(ids=existing_ids): every document is deleted
DeleteAll(index) == <<>>

\* a slip: the documents deleted by the purge are put back
UploadFailedRollback(k, out) ==
    [k EXCEPT !.pc = "done", !.outcome = out, !.at = k.pc, !.index = k.index_before]

\* an exception in the try block: logged, the function returns
UploadFailed(k, out) == KbEnded(k, out)

\* the scheduler, or the start of the service, calls update_knowledge_base
RefreshStart ==
    /\ kb.pc = "idle"
    /\ kb' = [kb EXCEPT !.pc = "fetch", !.i = 0, !.all_docs = <<>>,
                        !.contents = <<>>, !.at = "none",
                        !.index_before = kb.index, !.pos = 0,
                        !.events = <<>>, !.outcome = "none"]
    /\ UNCHANGED <<files, req, started, lastAppend, lastRead, apiCalls, web>>

\* one turn of the loop over DATA_SOURCES_URLS
RefreshFetch ==
    /\ kb.pc = "fetch"
    /\ kb.i < NumSources
    /\ \/ \E content \in FetchOutcomes :
            kb' = [kb EXCEPT !.i = kb.i + 1,
                             !.contents = Append(kb.contents, content),
                             !.all_docs = IF content # EmptyText
                                          THEN Append(kb.all_docs, DocId(kb.i))
                                          ELSE kb.all_docs]
       \/ /\ FetchCanRaise(kb.i)
          /\ kb' = KbEnded(kb, "raised")
    /\ UNCHANGED <<files, req, started, lastAppend, lastRead, apiCalls, web>>

\* the loop is over: the run ends here when nothing was fetched
RefreshCheck ==
    /\ kb.pc = "fetch"
    /\ kb.i = NumSources
    /\ kb' = IF AbortOnNoDocs(kb.all_docs) THEN KbEnded(kb, "aborted")
             ELSE [kb EXCEPT !.pc = "purge"]
    /\ UNCHANGED <<files, req, started, lastAppend, lastRead, apiCalls, web>>

\* collection.get, and collection.delete when the collection holds ids
RefreshPurge ==
    /\ kb.pc = "purge"
    /\ \E out \in CollectionOutcomes :
        kb' = IF out = "ok"
              THEN [kb EXCEPT !.pc = "upload", !.index = DeleteAll(kb.index),
                              !.events = IF kb.index # <<>>
                                         THEN Append(kb.events, [op |-> "delete", ids |-> [j \in 1..Len(kb.index) |-> kb.index[j].id], secs |-> 0])
                                         ELSE kb.events]
              ELSE KbEnded(kb, out)
    /\ UNCHANGED <<files, req, started, lastAppend, lastRead, apiCalls, web>>

\* one turn of the upload loop, up to the sleep or the end of the loop
RefreshUpload ==
    LET chunk == Chunk(kb.all_docs, kb.pos)
    IN  /\ kb.pc = "upload"
        /\ \E out \in CollectionOutcomes :
            kb' = IF out = "ok"
                  THEN LET added == [kb EXCEPT !.index = kb.index \o [j \in 1..Len(chunk) |-> Doc(chunk[j], "new")],
                                               !.events = Append(kb.events, [op |-> "add", ids |-> chunk, secs |-> 0])]
                       IN  IF MoreChunks(kb.pos, Len(kb.all_docs))
                           THEN [added EXCEPT !.pc = "delay"]
                           ELSE KbEnded(added, "ok")
                  ELSE UploadFailed(kb, out)
        /\ UNCHANGED <<files, req, started, lastAppend, lastRead, apiCalls, web>>

\* time.sleep(DELAY_BETWEEN_CHUNKS), then the next turn
RefreshDelay ==
    /\ kb.pc = "delay"
    /\ kb' = [kb EXCEPT !.pc = "upload", !.pos = kb.pos + CHUNK_SIZE,
                        !.events = Append(kb.events, [op |-> "sleep", ids |-> <<>>, secs |-> DELAY_BETWEEN_CHUNKS])]
    /\ UNCHANGED <<files, req, started, lastAppend, lastRead, apiCalls, web>>

(***************************************************************************)
(* Retrieval on the collection the refresher writes: find_best_passage     *)
(* (app/services/rag_service.py) reads the collection with no lock shared  *)
(* with update_knowledge_base.                                             *)
(***************************************************************************)
\* the text of a document of the collection
DocPassage(d) == <<d.gen, "doc", ToString(d.id)>>

\* a slip: no document gives the empty string
FindBestPassageOrEmpty(index) ==
    IF index = <<>> THEN {EmptyText}
    ELSE {DocPassage(index[j]) : j \in 1..Len(index)}

\* what find_best_passage can return on a collection: the sentinel when
\* the query gives no document, else the document the query ranks first
find_best_passage(index) ==
    IF index = <<>> THEN {NotFoundSentinel}
    ELSE {DocPassage(index[j]) : j \in 1..Len(index)}

\* relevant_context = find_best_passage(query, collection), on the
\* collection as it is now
RetrieveFromIndex(r) ==
    LET q == req[r]
        called == [q EXCEPT !.calls = Append(q.calls, Call("retrieve", RetrievalQuery(q), EmptyText))]
    IN  /\ q.pc = "retrieve"
        /\ \/ \E text \in find_best_passage(kb.index) :
                Set(r, [called EXCEPT !.pc = "generate", !.relevant_context = text])
           \/ \E kind \in {"quota", "error"} : Set(r, Raised(called, kind))
        /\ UNCHANGED <<kb, web, files, started, lastAppend, lastRead, apiCalls>>

RetrieveFromIndexStep == \E r \in DOMAIN req : RetrieveFromIndex(r)

(***************************************************************************)
(* Specifications.                                                         *)
(***************************************************************************)
\* Requests served one at a time.
Init ==
    /\ FilesInit
    /\ req = [r \in {1} |-> IdleReq]
    /\ started = 0
    /\ lastAppend = NoAppend
    /\ lastRead = NoRead
    /\ apiCalls = 0
    /\ kb = IdleKb
    /\ web = IdleWeb

ChatReceiveStep == \E r \in DOMAIN req : ChatReceive(r)
ChatGetHistoryStep == \E r \in DOMAIN req : ChatGetHistory(r)
GenerateReceiveStep == \E r \in DOMAIN req : GenerateReceive(r)
RetrieveStep == \E r \in DOMAIN req : Retrieve(r)
GenerateStep == \E r \in DOMAIN req : Generate(r)
WebFallbackStep == \E r \in DOMAIN req : WebFallback(r)
RegenerateStep == \E r \in DOMAIN req : Regenerate(r)
ChatAddReadStep == \E r \in DOMAIN req : ChatAddRead(r)
ChatAddWriteStep == \E r \in DOMAIN req : ChatAddWrite(r)
RespondStep == \E r \in DOMAIN req : Respond(r)

Next ==
    \/ ChatReceiveStep
    \/ ChatGetHistoryStep
    \/ GenerateReceiveStep
    \/ RetrieveStep
    \/ GenerateStep
    \/ WebFallbackStep
    \/ RegenerateStep
    \/ ChatAddReadStep
    \/ ChatAddWriteStep
    \/ RespondStep

Spec == Init /\ [][Next]_vars

\* The memory store alone, under direct calls.
MemNext == MemAppendStep \/ MemReadStep

MemSpec == Init /\ [][MemNext]_vars

\* One run of the refresher, on each collection it can find.
KbInit ==
    /\ files = [k \in Keys |-> Absent]
    /\ req = [r \in {1} |-> IdleReq]
    /\ started = 0
    /\ lastAppend = NoAppend
    /\ lastRead = NoRead
    /\ apiCalls = 0
    /\ kb \in {[IdleKb EXCEPT !.index = ix] : ix \in KbIndexes}
    /\ web = IdleWeb

KbNext ==
    \/ RefreshStart
    \/ RefreshFetch
    \/ RefreshCheck
    \/ RefreshPurge
    \/ RefreshUpload
    \/ RefreshDelay

KbSpec == KbInit /\ [][KbNext]_vars

\* build_web_context called with every top_k and char_limit of the bounds,
\* with and without search credentials.
WebInit ==
    /\ files = [k \in Keys |-> Absent]
    /\ req = [r \in {1} |-> IdleReq]
    /\ started = 0
    /\ lastAppend = NoAppend
    /\ lastRead = NoRead
    /\ apiCalls = 0
    /\ kb = IdleKb
    /\ web \in {[IdleWeb EXCEPT !.pc = "search", !.creds = c, !.top_k = t, !.char_limit = l] :
                   c \in BOOLEAN, t \in 0..MaxTopK, l \in 0..MaxCharLimit}

WebNext == GoogleSearch \/ ScrapeResult \/ JoinChunks

WebSpec == WebInit /\ [][WebNext]_vars

\* Two /chat requests of one user on one conversation, served by two
\* threads at once.  Both have passed the checks of the handler; nothing
\* orders their steps.
OtherQuestion == <<"what_is_the_claim_deadline?">>

Accepted(user_id, chat_id, message) ==
    [IdleReq EXCEPT !.pc = "get_history", !.route = "chat", !.token = "valid",
                    !.claims = [NoClaims EXCEPT !.user_id = Some(user_id)],
                    !.has_message = TRUE, !.has_chat_id = TRUE,
                    !.user_id = Some(user_id), !.chat_id = chat_id,
                    !.user_query = message]

ConcInit ==
    /\ files = [k \in Keys |-> IF k = get_file_path(UserA, ChatC) THEN WellFormedLog ELSE Absent]
    /\ req = [r \in {1, 2} |->
                Accepted(UserA, ChatC, IF r = 1 THEN Question ELSE OtherQuestion)]
    /\ started = 2
    /\ lastAppend = NoAppend
    /\ lastRead = NoRead
    /\ apiCalls = 0
    /\ kb = IdleKb
    /\ web = IdleWeb

ConcNext ==
    \/ ChatGetHistoryStep
    \/ RetrieveStep
    \/ GenerateStep
    \/ WebFallbackStep
    \/ RegenerateStep
    \/ ChatAddReadStep
    \/ ChatAddWriteStep

ConcSpec == ConcInit /\ [][ConcNext]_vars

\* A /generate request that has passed the body check, served while the
\* refresher runs on a collection an earlier run filled.
Received(message) ==
    [IdleReq EXCEPT !.pc = "retrieve", !.route = "generate", !.token = "missing",
                    !.has_message = TRUE, !.user_query = message]

LiveInit ==
    /\ files = [k \in Keys |-> Absent]
    /\ req = [r \in {1} |-> Received(Question)]
    /\ started = 1
    /\ lastAppend = NoAppend
    /\ lastRead = NoRead
    /\ apiCalls = 0
    /\ kb = [IdleKb EXCEPT !.index = OldDocs(NumSources)]
    /\ web = IdleWeb

LiveNext ==
    \/ RefreshStart
    \/ RefreshFetch
    \/ RefreshCheck
    \/ RefreshPurge
    \/ RefreshUpload
    \/ RefreshDelay
    \/ RetrieveFromIndexStep

LiveSpec == LiveInit /\ [][LiveNext]_vars

\* Normalisation of stored arrays, under reads and appends of one pair.
NormInit ==
    /\ NormFilesInit
    /\ req = [r \in {1} |-> IdleReq]
    /\ started = 0
    /\ lastAppend = NoAppend
    /\ lastRead = NoRead
    /\ apiCalls = 0
    /\ kb = IdleKb
    /\ web = IdleWeb

NormNext == NormReadStep \/ NormAppendStep

NormSpec == NormInit /\ [][NormNext]_vars

(***************************************************************************)
(* Properties.                                                             *)
(***************************************************************************)
Min(a, b) == IF a < b THEN a ELSE b

\* the final answer of the request is known and no call raised
Answered(q) ==
    \/ q.pc \in {"add_user_read", "add_user_write", "add_bot_read", "add_bot_write"}
    \/ q.pc = "done" /\ q.status = 200

GenerateCalls(q) == SelectSeq(q.calls, LAMBDA c : c.op = "generate")

\* one of the two marker phrases occurs in the text
HasMarker(text) == Contains(Marker1, text) \/ Contains(Marker2, text)

StoredLog(q) == normalize_history(files[get_file_path(q.user_id.v, q.chat_id)].items)
LogBefore(q) == normalize_history(q.log_before.items)
UserTurn(q) == Dict(RoleUser, Str(q.user_query))
BotTurn(q) == Dict(RoleBot, Str(q.final_answer))

\* C1: a /chat request whose calls return appends the user turn holding the
\* question and then the bot turn holding the final answer, refusal or not:
\* after the first add_message the log is the log before followed by the
\* user turn, at the response it is the log before followed by the user turn
\* and the bot turn, and a request that ends otherwise was rejected by the
\* handler's checks or ended by a call that raised (500), before any
\* add_message call.
C1_UserThenBotAppended ==
    \A r \in DOMAIN req :
        LET q == req[r]
        IN  q.route = "chat" =>
              /\ q.pc \in {"add_user_read", "add_user_write"} => StoredLog(q) = LogBefore(q)
              /\ q.pc \in {"add_bot_read", "add_bot_write"} =>
                    StoredLog(q) = LogBefore(q) \o <<UserTurn(q)>>
              /\ (q.pc = "done" /\ q.status = 200) =>
                    /\ StoredLog(q) = LogBefore(q) \o <<UserTurn(q), BotTurn(q)>>
                    /\ q.reply = q.final_answer
              /\ (q.pc = "done" /\ q.status # 200) =>
                    /\ CountCalls(q.calls, "add_message") = 0
                    /\ q.calls # <<>> => q.status = 500

C1_Witness ==
    \E r \in DOMAIN req :
        /\ req[r].route = "chat" /\ req[r].pc = "done" /\ req[r].status = 200
        /\ req[r].final_answer = RefusalAnswer
        /\ Len(LogBefore(req[r])) >= 2
        /\ Len(StoredLog(req[r])) = Len(LogBefore(req[r])) + 2

\* C2: on both paths, when retrieval returned the not-found sentinel the web
\* fallback is called exactly once; a non-empty web context gives one
\* regeneration from that context whose text is the answer, an empty one
\* leaves the first answer as the answer.
C2_SentinelFallbackOnce ==
    \A r \in DOMAIN req :
        LET q == req[r]
        IN  q.relevant_context = NotFoundSentinel =>
              /\ CountCalls(q.calls, "web") <= 1
              /\ Answered(q) =>
                    /\ CountCalls(q.calls, "web") = 1
                    /\ IF q.web_ctx # EmptyText
                       THEN /\ Len(GenerateCalls(q)) = 2
                            /\ GenerateCalls(q)[2] = Call("generate", q.user_query, q.web_ctx)
                            /\ q.final_answer = q.second_answer
                       ELSE /\ Len(GenerateCalls(q)) = 1
                            /\ q.final_answer = q.first_answer
                    /\ q.pc = "done" => q.reply = q.final_answer

C2_Witness ==
    \E r \in DOMAIN req :
        /\ req[r].pc = "done" /\ req[r].status = 200
        /\ req[r].relevant_context = NotFoundSentinel
        /\ CountCalls(req[r].calls, "web") = 1
        /\ req[r].web_ctx = EmptyText
        /\ req[r].reply = req[r].first_answer

\* C3: in both handlers the web fallback is called if and only if one of the
\* two markers occurs in the retrieved context or in the first answer; when
\* neither holds a marker the web search is not called and the first answer
\* is the final answer.
C3_FallbackIffMarker ==
    \A r \in DOMAIN req :
        LET q == req[r]
            marked == HasMarker(q.relevant_context) \/ HasMarker(q.first_answer)
        IN  /\ q.pc \in {"web", "regenerate"} => marked
            /\ CountCalls(q.calls, "web") >= 1 => marked
            /\ Answered(q) =>
                  /\ CountCalls(q.calls, "web") >= 1 <=> marked
                  /\ ~marked =>
                        /\ q.final_answer = q.first_answer
                        /\ Len(GenerateCalls(q)) = 1
                        /\ q.pc = "done" => q.reply = q.first_answer

C3_Witness ==
    \E r \in DOMAIN req :
        /\ req[r].pc = "done" /\ req[r].status = 200
        /\ req[r].relevant_context = PassageWithMarker
        /\ req[r].first_answer = PlainAnswer
        /\ CountCalls(req[r].calls, "web") = 1

\* the log a read of the pair is cut from
ReadLog == normalize_history(files[get_file_path(lastRead.user, lastRead.chat)].items)

\* C4: for every limit N >= 0, get_history returns min(N, stored turns)
\* turns, and they are the last ones of the log in their order.
C4_ReadLengthAndSuffix ==
    (lastRead.valid /\ ~lastRead.raised) =>
        /\ Len(lastRead.result) = Min(lastRead.limit, Len(ReadLog))
        /\ lastRead.result =
              SubSeq(ReadLog, Len(ReadLog) - Len(lastRead.result) + 1, Len(ReadLog))

\* the {role, message} of each entry
TurnViews(items) == [i \in 1..Len(items) |-> <<items[i].role, items[i].message>>]
AllDicts(items) == \A i \in 1..Len(items) : items[i].shape = "dict"

\* C5: after an append on a log of well-formed turns, a read of the pair with
\* a limit of at least the log's length returns the turns stored before, in
\* their order, followed by the new turn.
C5_AppendThenRead ==
    ( /\ lastAppend.valid /\ ~lastAppend.raised
      /\ lastRead.valid /\ ~lastRead.raised
      /\ lastRead.user = lastAppend.user /\ lastRead.chat = lastAppend.chat
      /\ lastAppend.prev.kind \in {"absent", "list"}
      /\ AllDicts(lastAppend.prev.items)
      /\ lastRead.limit >= Len(lastAppend.prev.items) + 1 )
    => TurnViews(lastRead.result) =
          TurnViews(lastAppend.prev.items) \o TurnViews(<<lastAppend.turn>>)

C5_Witness ==
    /\ lastAppend.valid /\ ~lastAppend.raised
    /\ lastRead.valid /\ ~lastRead.raised
    /\ lastRead.user = lastAppend.user /\ lastRead.chat = lastAppend.chat
    /\ lastAppend.prev.kind = "list"
    /\ AllDicts(lastAppend.prev.items)
    /\ Len(lastAppend.prev.items) = 2
    /\ lastRead.limit = 3
    /\ Len(lastRead.result) = 3

\* C6: an append for one pair leaves the stored record of every other pair
\* as it was, whatever characters the identifiers hold.
C6_Isolation ==
    [][ \A p \in Pairs :
          ( /\ apiCalls' # apiCalls
            /\ lastAppend'.valid /\ ~lastRead'.valid
            /\ p # <<lastAppend'.user, lastAppend'.chat>> )
          => files'[get_file_path(p[1], p[2])] = files[get_file_path(p[1], p[2])] ]_vars

\* the first non-empty claim in the order user_id, id, email, username
IdentityOf(claims) ==
    IF Truthy(claims.user_id) THEN claims.user_id
    ELSE IF Truthy(claims.id) THEN claims.id
    ELSE IF Truthy(claims.email) THEN claims.email
    ELSE IF Truthy(claims.username) THEN claims.username
    ELSE None

\* the request is where the handler's checks have left it
JustReceived(q) == q.pc = "get_history" \/ (q.pc = "done" /\ q.calls = <<>>)

\* C7, as stated: a /chat request none of whose four claims is non-empty is
\* rejected with 401 and makes no call.
C7_NoIdentityIs401 ==
    \A r \in DOMAIN req :
        LET q == req[r]
        IN  ( /\ q.route = "chat" /\ q.token = "valid" /\ JustReceived(q)
              /\ ~Truthy(IdentityOf(q.claims)) )
            => q.pc = "done" /\ q.status = 401 /\ q.calls = <<>>

\* C7, amended: the identity is the first non-empty claim in the order
\* user_id, id, email, username; when none is non-empty, a request that
\* passes the body check is rejected with 401 (one that fails it with 400),
\* and in both cases it makes no call; a request that makes a call has an
\* identity.
C7_IdentityPrecedence ==
    \A r \in DOMAIN req :
        LET q == req[r]
        IN  /\ ( q.route = "chat" /\ q.token = "valid" /\ JustReceived(q) ) =>
                 IF ChatBodyInvalid(q.has_message, q.has_chat_id)
                 THEN q.pc = "done" /\ q.status = 400
                 ELSE IF Truthy(IdentityOf(q.claims))
                 THEN q.pc = "get_history" /\ q.user_id = IdentityOf(q.claims)
                 ELSE q.pc = "done" /\ q.status = 401
            /\ ( q.route = "chat" /\ q.calls # <<>> ) => Truthy(q.user_id)

C7_Witness ==
    \E r \in DOMAIN req :
        /\ req[r].route = "chat" /\ req[r].pc = "get_history"
        /\ req[r].claims.user_id = Some(EmptyText)
        /\ req[r].claims.id = Some(EmptyText)
        /\ req[r].claims.email = Some(UserA)
        /\ req[r].claims.username = Some(UserAB)
        /\ req[r].user_id = Some(UserA)

\* C8: a request whose question is missing or empty, or on /chat whose
\* conversation identifier is missing, is rejected with 400 and makes no
\* call (a /chat request rejected with 401 for its token or identity
\* aside).
C8_EmptyQuestionRejected ==
    \A r \in DOMAIN req :
        LET q == req[r]
        IN  ( /\ q.pc # "idle" /\ q.status # 401
              /\ \/ ~q.has_message
                 \/ q.user_query = EmptyText
                 \/ q.route = "chat" /\ ~q.has_chat_id )
            => q.pc = "done" /\ q.status = 400 /\ q.calls = <<>>

\* C9, as stated: when retrieval returned a real passage holding no marker,
\* the first answer is the final answer and the web fallback is not called.
C9_CleanPassageNoFallback ==
    \A r \in DOMAIN req :
        LET q == req[r]
        IN  ( q.relevant_context = Passage /\ ~HasMarker(q.relevant_context) ) =>
              /\ CountCalls(q.calls, "web") = 0
              /\ q.pc # "web"
              /\ Answered(q) => q.final_answer = q.first_answer

\* C9, amended: when retrieval returned a real passage holding no marker and
\* the first answer holds no marker either, the first answer is the final
\* answer and the web fallback is not called; it is called when the first
\* answer holds a marker.
C9_CleanPassageCleanAnswer ==
    \A r \in DOMAIN req :
        LET q == req[r]
        IN  ( q.relevant_context = Passage /\ ~HasMarker(q.relevant_context) ) =>
              /\ ~HasMarker(q.first_answer) =>
                    /\ CountCalls(q.calls, "web") = 0
                    /\ q.pc \notin {"web", "regenerate"}
                    /\ Answered(q) =>
                          /\ q.final_answer = q.first_answer
                          /\ Len(GenerateCalls(q)) = 1
                          /\ q.pc = "done" => q.reply = q.first_answer
              /\ ( HasMarker(q.first_answer) /\ Answered(q) ) =>
                    CountCalls(q.calls, "web") = 1

C9_Witness ==
    \E r \in DOMAIN req :
        /\ req[r].pc = "done" /\ req[r].status = 200
        /\ req[r].relevant_context = Passage
        /\ req[r].first_answer = PlainAnswer
        /\ req[r].reply = PlainAnswer
        /\ CountCalls(req[r].calls, "web") = 0

\* C10: within one request the generator is called at most twice and the web
\* fallback at most once; when the web context is non-empty the regenerated
\* answer is the final answer even if it holds a marker.
C10_NoFallbackChain ==
    \A r \in DOMAIN req :
        LET q == req[r]
        IN  /\ Len(GenerateCalls(q)) <= 2
            /\ CountCalls(q.calls, "web") <= 1
            /\ ( Answered(q) /\ q.web_ctx # EmptyText ) =>
                  /\ q.final_answer = q.second_answer
                  /\ Len(GenerateCalls(q)) = 2
                  /\ CountCalls(q.calls, "web") = 1
                  /\ q.pc = "done" => q.reply = q.second_answer

C10_Witness ==
    \E r \in DOMAIN req :
        /\ req[r].pc = "done" /\ req[r].status = 200
        /\ req[r].web_ctx # EmptyText
        /\ req[r].reply = RefusalAnswer
        /\ HasMarker(req[r].reply)
        /\ Len(GenerateCalls(req[r])) = 2
        /\ CountCalls(req[r].calls, "web") = 1

\* the file of the pair last appended to, and of the pair last read
AppendedFile == files[get_file_path(lastAppend.user, lastAppend.chat)]
ReadFile == files[get_file_path(lastRead.user, lastRead.chat)]

\* the stored content cannot be read as a JSON array
Unreadable(content) == content.kind \in {"corrupt", "scalar"}

\* C11: a /chat request whose stored log is unreadable or malformed takes the
\* history as empty and goes on to retrieval: the read of the log does not
\* end the request with an error.
C11_CorruptLogReadAsEmpty ==
    \A r \in DOMAIN req :
        LET q == req[r]
        IN  ( /\ q.route = "chat"
              /\ Len(q.calls) = 1 /\ q.calls[1].op = "get_history"
              /\ Unreadable(q.log_before) )
            => q.pc = "retrieve" /\ q.history = <<>> /\ q.error = "none"

\* C12: add_message does not raise when the stored content cannot be read or
\* is malformed; it takes the content as empty, and the stored log is then
\* the new turn alone.
C12_AppendOverUnreadable ==
    ( lastAppend.valid /\ Unreadable(lastAppend.prev) ) =>
        /\ ~lastAppend.raised
        /\ AppendedFile = List(<<lastAppend.turn>>)

\* an entry of one of the two shapes normalisation keeps
WellShaped(e) == e.shape \in {"dict", "pair"}
\* the {role, message} object such an entry stands for
TurnOf(e) ==
    [shape |-> "dict", extra |-> FALSE,
     role |-> IF e.shape = "pair" THEN Str(e.role.s) ELSE e.role,
     message |-> IF e.shape = "pair" THEN Str(e.message.s) ELSE e.message]
ExpectedTurns(items) ==
    LET kept == SelectSeq(items, WellShaped)
    IN  [i \in 1..Len(kept) |-> TurnOf(kept[i])]

\* C13: normalisation of a stored array gives one {role, message} object per
\* canonical object or legacy pair, in their order, drops every other entry
\* and does not raise: a read of the whole log returns these objects, and an
\* append stores them followed by the new turn.
C13_NormalizeKeepsWellShaped ==
    /\ ( lastRead.valid /\ ReadFile.kind = "list"
          /\ lastRead.limit >= Len(ReadFile.items) /\ lastRead.limit > 0 ) =>
            /\ ~lastRead.raised
            /\ lastRead.result = ExpectedTurns(ReadFile.items)
            /\ Len(lastRead.result) =
                  Cardinality({i \in 1..Len(ReadFile.items) : WellShaped(ReadFile.items[i])})
    /\ ( lastAppend.valid /\ lastAppend.prev.kind = "list" ) =>
            /\ ~lastAppend.raised
            /\ AppendedFile = List(ExpectedTurns(lastAppend.prev.items) \o <<lastAppend.turn>>)

C13_Witness ==
    /\ lastRead.valid /\ ~lastRead.raised /\ ~lastAppend.valid
    /\ Len(ReadFile.items) = 3
    /\ {ReadFile.items[i].shape : i \in 1..3} = {"dict", "pair", "other"}
    /\ ReadFile.items[1].shape = "pair"
    /\ Len(lastRead.result) = 2
    /\ lastRead.result[1] = Dict(RoleUser, Str(<<"7">>))

\* C14: on /generate and on /chat, a retrieval or generation call that
\* reports quota exhaustion ends the request with status 429, and no call
\* follows it.
C14_QuotaIs429 ==
    \A r \in DOMAIN req :
        LET q == req[r]
        IN  q.error = "quota" => q.pc = "done" /\ q.status = 429

\* ceil(n / b)
CeilDiv(n, b) == (n + b - 1) \div b

\* C15: a run that fetched no document ends without a call to the
\* collection, and the collection is as it was before the run.
C15_NoDocsNoPurge ==
    ( kb.pc \notin {"idle", "fetch"} /\ kb.all_docs = <<>> ) =>
        /\ kb.pc = "done" /\ kb.outcome \in {"aborted", "raised"}
        /\ kb.i = NumSources => kb.outcome = "aborted"
        /\ kb.events = <<>>
        /\ kb.index = kb.index_before

C15_Witness ==
    /\ kb.pc = "done" /\ kb.all_docs = <<>> /\ kb.i = NumSources
    /\ kb.outcome = "aborted"
    /\ kb.index_before = OldDocs(NumSources)
    /\ kb.index = kb.index_before

\* the calls of the upload loop: what follows the purge
UploadEvents == SelectSeq(kb.events, LAMBDA e : e.op # "delete")

\* C16: a run that fetched n >= 1 documents and ends without an error
\* uploads them in ceil(n / CHUNK_SIZE) batches in fetch order, each of
\* CHUNK_SIZE documents but possibly the last, and sleeps
\* DELAY_BETWEEN_CHUNKS after every batch but the last; the collection then
\* holds the n documents.
C16_BatchesAndDelays ==
    ( kb.pc = "done" /\ kb.outcome = "ok" ) =>
        LET n == Len(kb.all_docs)
            nb == CeilDiv(n, CHUNK_SIZE)
            ev == UploadEvents
        IN  /\ n >= 1
            /\ Len(ev) = 2 * nb - 1
            /\ \A b \in 1..nb :
                  /\ ev[2 * b - 1].op = "add"
                  /\ ev[2 * b - 1].ids =
                        SubSeq(kb.all_docs, (b - 1) * CHUNK_SIZE + 1,
                               IF b < nb THEN b * CHUNK_SIZE ELSE n)
                  /\ b < nb => Len(ev[2 * b - 1].ids) = CHUNK_SIZE
                  /\ Len(ev[2 * b - 1].ids) \in 1..CHUNK_SIZE
            /\ \A b \in 1..(nb - 1) :
                  ev[2 * b] = [op |-> "sleep", ids |-> <<>>, secs |-> DELAY_BETWEEN_CHUNKS]
            /\ Cardinality({j \in 1..Len(ev) : ev[j].op = "sleep"}) = nb - 1
            /\ [j \in 1..Len(kb.index) |-> kb.index[j].id] = kb.all_docs

C16_Witness ==
    /\ kb.pc = "done" /\ kb.outcome = "ok"
    /\ Len(kb.all_docs) = 10
    /\ [j \in 1..Len(UploadEvents) |-> Len(UploadEvents[j].ids)] = <<4, 0, 4, 0, 2>>
    /\ UploadEvents[2].op = "sleep" /\ UploadEvents[5].op = "add"

\* C17: the history a successful /chat request returns is the stored log of
\* its pair after the request (requests are served one at a time): the prior
\* turns followed by the two new turns, whatever the length of the log.
C17_ResponseIsFullHistory ==
    \A r \in DOMAIN req :
        LET q == req[r]
        IN  ( q.route = "chat" /\ q.pc = "done" /\ q.status = 200 ) =>
              /\ q.resp_history = StoredLog(q)
              /\ q.resp_history = LogBefore(q) \o <<UserTurn(q), BotTurn(q)>>

\* C18: on /generate as on /chat, a request without a valid token is
\* answered with 401 and makes no retrieval, generation or web search call.
C18_EveryRouteNeedsToken ==
    \A r \in DOMAIN req :
        LET q == req[r]
        IN  ( q.pc # "idle" /\ q.token # "valid" ) =>
              q.pc = "done" /\ q.status = 401 /\ q.calls = <<>>

\* the results build_web_context may use: the first top_k of the search
\* results that have a link and whose page gave text
FirstK == SubSeq(web.results, 1, Min(web.top_k, Len(web.results)))
UsableAt == {i \in 1..Len(FirstK) : FirstK[i].link # EmptyText /\ web.pages[i] # EmptyText}

\* the block of the i-th result, its page text cut to char_limit characters
ExpectedBlock(i) ==
    <<"[source]">> \o FirstK[i].title \o <<"\n">> \o FirstK[i].link
        \o <<"\n", "[content]", "\n">>
        \o SubSeq(web.pages[i], 1, Min(web.char_limit, Len(web.pages[i])))

\* the blocks of the usable results from the i-th on, a blank line between
RECURSIVE ExpectedFrom(_)
ExpectedFrom(i) ==
    IF i > Len(FirstK) THEN EmptyText
    ELSE IF i \notin UsableAt THEN ExpectedFrom(i + 1)
    ELSE IF \E j \in UsableAt : j > i
         THEN ExpectedBlock(i) \o <<"\n\n">> \o ExpectedFrom(i + 1)
         ELSE ExpectedBlock(i)

\* C19: build_web_context returns the blocks of the results, among the first
\* top_k, that have a link and extracted page text, in their order, each
\* page text cut to char_limit characters, a blank line between blocks; it
\* returns "" when there is no such result, and when the search credentials
\* are absent.
C19_WebContextBlocks ==
    web.pc = "returned" =>
        /\ web.out = ExpectedFrom(1)
        /\ UsableAt = {} => web.out = EmptyText
        /\ ~web.creds => web.out = EmptyText /\ web.pages = <<>>

C19_Witness ==
    /\ web.pc = "returned" /\ web.creds
    /\ web.top_k = 2 /\ web.char_limit = 2
    /\ Len(web.results) = 2
    /\ UsableAt = {1, 2}
    /\ web.pages[1] = <<"x", "y", "z">>
    /\ web.results[1].title = EmptyText
    /\ Contains(<<"x", "y", "\n\n", "[source]">>, web.out)

\* the stored log of the conversation both requests are on
SharedLog == normalize_history(files[get_file_path(UserA, ChatC)].items)
BothAnswered == \A r \in DOMAIN req : req[r].pc = "done" /\ req[r].status = 200
TurnsOf(q) == {UserTurn(q), BotTurn(q)}
\* the turn is in the log, after the turns stored before the two requests
Stored(turn) ==
    \E i \in (Len(WellFormedLog.items) + 1)..Len(SharedLog) : SharedLog[i] = turn

\* C20: nothing orders the reads and writes of two /chat requests on one
\* key, and each write stores the writer's own snapshot followed by its
\* turn.  When both requests have been answered, the log starts with the log
\* before them, ends with the bot turn of the request that wrote last, and
\* holds between two and four of their four turns: turns of accepted
\* requests can be missing (the witness is a log that lacks both turns of
\* the first request).
C20_LastWriterWins ==
    BothAnswered =>
        LET before == WellFormedLog.items
            n == Len(SharedLog)
        IN  /\ n >= Len(before) + 2 /\ n <= Len(before) + 4
            /\ SubSeq(SharedLog, 1, Len(before)) = before
            /\ \E r \in DOMAIN req : SharedLog[n] = BotTurn(req[r])
            /\ \A i \in (Len(before) + 1)..n :
                  \E r \in DOMAIN req : SharedLog[i] \in TurnsOf(req[r])

C20_Witness ==
    /\ BothAnswered
    /\ ~Stored(UserTurn(req[1])) /\ ~Stored(BotTurn(req[1]))
    /\ Stored(UserTurn(req[2])) /\ Stored(BotTurn(req[2]))
    /\ Len(req[1].resp_history) = Len(WellFormedLog.items) + 2
    /\ Len(SharedLog) = Len(WellFormedLog.items) + 2

\* the calls of one kind a request has made
CallsOf(q, op) == SelectSeq(q.calls, LAMBDA c : c.op = op)

\* the turns chat reads: the last HistoryLimit turns of the log before
RecentTurns(q) ==
    LET log == LogBefore(q)
    IN  SubSeq(log, IF Len(log) > HistoryLimit THEN Len(log) - HistoryLimit + 1 ELSE 1, Len(log))

\* the lines "role: message" of the turns from the i-th on, each followed by
\* a line break
RECURSIVE LinesFrom(_, _)
LinesFrom(turns, i) ==
    IF i > Len(turns) THEN EmptyText
    ELSE turns[i].role.s \o <<": ">> \o turns[i].message.s \o <<"\n">> \o LinesFrom(turns, i + 1)

\* the history-augmented query
AugmentedQuery(q) ==
    IF RecentTurns(q) = <<>> THEN q.user_query
    ELSE LinesFrom(RecentTurns(q), 1) \o <<"user", ": ">> \o q.user_query

\* C21: in /chat the retrieval call is given the augmented query: the at
\* most 20 most recent turns as lines "role: message", oldest first, then the
\* line "user: <question>", and the question alone when the history is
\* empty; every generation call, the regeneration included, and the web
\* search are given the question itself.
C21_AugmentedRetrievalOnly ==
    \A r \in DOMAIN req :
        LET q == req[r]
        IN  q.route = "chat" =>
              /\ \A i \in 1..Len(CallsOf(q, "retrieve")) :
                    CallsOf(q, "retrieve")[i].a = AugmentedQuery(q)
              /\ \A i \in 1..Len(CallsOf(q, "generate")) :
                    CallsOf(q, "generate")[i].a = q.user_query
              /\ \A i \in 1..Len(CallsOf(q, "web")) :
                    CallsOf(q, "web")[i].a = q.user_query
              /\ Len(CallsOf(q, "retrieve")) <= 1
              /\ Answered(q) => Len(CallsOf(q, "retrieve")) = 1

C21_Witness ==
    \E r \in DOMAIN req :
        LET q == req[r]
        IN  /\ q.route = "chat" /\ q.pc = "done" /\ q.status = 200
            /\ Len(LogBefore(q)) = HistoryLimit + 1
            /\ Len(RecentTurns(q)) = HistoryLimit
            /\ Len(CallsOf(q, "generate")) = 2 /\ Len(CallsOf(q, "web")) = 1
            /\ CallsOf(q, "retrieve")[1].a # q.user_query
            /\ CallsOf(q, "generate")[2].a = Question
            /\ Contains(<<"\n", "user", ": ">> \o Question, CallsOf(q, "retrieve")[1].a)

\* C22: a failure of any kind to fetch or convert one source is skipped:
\* a run that has left its fetch loop has fetched every source, no failure
\* of a fetch ends it, and when a source gave content it goes on to the
\* purge.
C22_FetchFailureSkipped ==
    kb.pc \notin {"idle", "fetch"} =>
        /\ kb.i = NumSources
        /\ kb.outcome # "raised"
        /\ kb.all_docs # <<>> => kb.outcome # "aborted"

\* the last call a request made
LastCall(q) == q.calls[Len(q.calls)]

\* C23: a failure of any kind of the search or of a page fetch in the web
\* fallback does not end the request with an error: after the call of the
\* fallback the request goes on, with an empty context when everything
\* failed, and the first answer is then the reply.
C23_WebFailureNotSurfaced ==
    \A r \in DOMAIN req :
        LET q == req[r]
        IN  ( q.calls # <<>> /\ LastCall(q).op = "web" ) =>
              /\ q.error = "none"
              /\ q.pc = "done" => q.status = 200
              /\ ( q.pc = "done" /\ q.web_ctx = EmptyText ) => q.reply = q.first_answer

\* the new documents of the first n fetched
NewDocs(n) == [j \in 1..n |-> Doc(kb.all_docs[j], "new")]
AddEvents == SelectSeq(kb.events, LAMBDA e : e.op = "add")

\* C24: when the quota is exhausted in the upload of batch k, the function
\* returns (the exception is caught), the run is over, and the collection
\* holds the new documents of the batches 1..k-1 and none of the documents
\* it held before the run.
C24_QuotaStopsUpload ==
    ( kb.pc = "done" /\ kb.outcome = "quota" /\ kb.at = "upload" ) =>
        /\ kb.pos % CHUNK_SIZE = 0 /\ kb.pos < Len(kb.all_docs)
        /\ Len(AddEvents) = kb.pos \div CHUNK_SIZE
        /\ kb.index = NewDocs(kb.pos)
        /\ \A j \in 1..Len(kb.index) : kb.index[j].gen = "new"
        /\ kb.events # <<>> => kb.events[Len(kb.events)].op # "add" \/ kb.pos = 0

C24_Witness ==
    /\ kb.pc = "done" /\ kb.outcome = "quota" /\ kb.at = "upload"
    /\ kb.index_before = OldDocs(NumSources)
    /\ Len(kb.all_docs) = 10
    /\ Len(AddEvents) = 2
    /\ Len(kb.index) = 8

\* C25: the collection is as before the run, and no call to it is made,
\* until every source has been fetched; the delete of the old documents is
\* the first call that changes it, and every upload comes after it, into a
\* collection that holds no old document.
C25_FetchPurgeUpload ==
    /\ kb.pc = "idle" => kb.events = <<>>
    /\ ( kb.pc = "fetch" \/ (kb.pc # "idle" /\ kb.i < NumSources) ) =>
          kb.index = kb.index_before /\ kb.events = <<>>
    /\ \A j \in 1..Len(kb.events) : kb.events[j].op = "delete" => j = 1
    /\ ( AddEvents # <<>> /\ kb.index_before # <<>> ) =>
          /\ kb.events[1].op = "delete"
          /\ kb.events[1].ids = [j \in 1..Len(kb.index_before) |-> kb.index_before[j].id]
    /\ ( kb.pc \in {"upload", "delay"} \/ AddEvents # <<>> ) =>
          \A j \in 1..Len(kb.index) : kb.index[j].gen = "new"

C25_Witness ==
    /\ kb.pc = "upload" /\ kb.pos = CHUNK_SIZE
    /\ kb.index_before = OldDocs(CHUNK_SIZE)
    /\ Len(kb.events) = 3
    /\ kb.events[1].op = "delete" /\ kb.events[2].op = "add" /\ kb.events[3].op = "sleep"

\* the 1-based positions of the sources that gave content
Productive == {k \in 1..Len(kb.contents) : kb.contents[k] # EmptyText}

\* C28: after a run that fetched at least one document and whose calls to
\* the collection all returned, the collection holds one new document for
\* each source that gave content, its id the 1-based position of the source
\* in DATA_SOURCES_URLS, in the order of the sources, and no document it
\* held before the run.
C28_OneDocPerProductiveSource ==
    ( kb.pc = "done" /\ kb.outcome = "ok" ) =>
        /\ Productive # {}
        /\ Len(kb.contents) = NumSources
        /\ {kb.index[j].id : j \in 1..Len(kb.index)} = Productive
        /\ Len(kb.index) = Cardinality(Productive)
        /\ \A j \in 1..Len(kb.index) : kb.index[j].gen = "new"
        /\ \A j \in 1..(Len(kb.index) - 1) : kb.index[j].id < kb.index[j + 1].id

C28_Witness ==
    /\ kb.pc = "done" /\ kb.outcome = "ok"
    /\ kb.index_before = OldDocs(NumSources)
    /\ Productive = {2, 5, 10}
    /\ kb.index = <<Doc(2, "new"), Doc(5, "new"), Doc(10, "new")>>

\* C26: nothing orders a retrieval and the steps of a refresh run: a
\* retrieval returns from the collection as it is at that moment, the
\* not-found sentinel (and no error) when the collection is empty, else a
\* document the collection then holds, be it one of the old or a part of the
\* new ones.
C26_RetrievalSeesLiveIndex ==
    [][ \A r \in DOMAIN req :
          ( req[r].pc = "retrieve" /\ req'[r].pc # "retrieve" /\ req'[r].error = "none" )
          => /\ req'[r].pc = "generate"
             /\ IF kb.index = <<>>
                THEN req'[r].relevant_context = NotFoundSentinel
                ELSE \E j \in 1..Len(kb.index) :
                        req'[r].relevant_context =
                            <<kb.index[j].gen, "doc", ToString(kb.index[j].id)>> ]_vars

C26_Witness ==
    /\ kb.pc = "upload" /\ kb.pos = 0
    /\ kb.index = <<>> /\ kb.index_before = OldDocs(NumSources)
    /\ Len(kb.all_docs) = NumSources
    /\ req[1].pc = "generate" /\ req[1].error = "none"
    /\ req[1].relevant_context = NotFoundSentinel

\* C27: a /chat request ended by a retrieval, generation, web fallback or
\* regeneration call that raised has made no add_message call, and the file
\* of its pair is as the request found it.
C27_NoTurnOnUpstreamFailure ==
    \A r \in DOMAIN req :
        LET q == req[r]
        IN  ( /\ q.route = "chat" /\ q.error # "none"
              /\ CountCalls(q.calls, "retrieve") >= 1 )
            => /\ q.pc = "done" /\ q.status = 500
               /\ CountCalls(q.calls, "add_message") = 0
               /\ files[get_file_path(q.user_id.v, q.chat_id)] = q.log_before

C27_Witness ==
    \E r \in DOMAIN req :
        LET q == req[r]
        IN  /\ q.route = "chat" /\ q.pc = "done" /\ q.error = "quota"
            /\ CountCalls(q.calls, "generate") = 2
            /\ LastCall(q).op = "generate"
            /\ q.log_before = WellFormedLog
            /\ files[get_file_path(q.user_id.v, q.chat_id)] = WellFormedLog

====
